---- MODULE Spec2Model ----
(***************************************************************************)
(* State-machine model of datalad_gooey/app.py (class GooeyApp): the       *)
(* process-global setup done by the constructor and undone by deinit, the  *)
(* signal wiring between the application, the form configurator and the    *)
(* command executor, the UI callbacks that reflect command execution into  *)
(* the status bar, the logs and the cursor, and the lazily populated       *)
(* dataset menu.                                                           *)
(*                                                                         *)
(* The command executor (GooeyDataladCmdExec), the form configurator       *)
(* (GooeyDataladCmdUI) and add_cmd_actions_to_menu live in modules that    *)
(* are not part of the sources at hand; they are modelled from the         *)
(* description "background worker that invokes a wrapped-library command   *)
(* off the UI thread and signals completion/failure" and from the way      *)
(* app.py uses them.                                                       *)
(***************************************************************************)
EXTENDS Naturals, Sequences, FiniteSets

\* ---------------------------------------------------------------- bounds
\* number of inputs the user gives to the running application (signals
\* emitted on their behalf, menus opened, actions triggered, forms accepted)
MaxInputs == 2

\* ------------------------------------------------------------- constants
None == "None"

\* the environment variables the constructor captures and overrides
EnvVars == {"GIT_TERMINAL_PROMPT", "SSH_ASKPASS_REQUIRE", "SSH_ASKPASS"}

\* environments the process may have before the application is constructed:
\* none of the variables exists, all of them hold a value of the user's,
\* only GIT_TERMINAL_PROMPT exists
NoEnv == [v \in EnvVars |-> None]
UserEnv ==
    [GIT_TERMINAL_PROMPT |-> "1",
     SSH_ASKPASS_REQUIRE |-> "prefer",
     SSH_ASKPASS         |-> "ssh-askpass"]
GitOnlyEnv == [NoEnv EXCEPT !["GIT_TERMINAL_PROMPT"] = "1"]

\* the process before construction: its environment and the UI backend of
\* the wrapped library that is active
PriorSetups ==
    {[environ |-> NoEnv,      backend |-> "console"],
     [environ |-> UserEnv,    backend |-> "dialog"],
     [environ |-> GitOnlyEnv, backend |-> "console"]}

\* Path.home(), the working directory of the process before construction,
\* a path handed to the constructor, a directory picked in the dialog
HOME      == "/home/user"
PrevCwd   == "/srv/prev-cwd"
PathArgs  == {None, "/data/given"}
DialogChoices == {"", "/data/chosen"}
\* the dialog is shown only when no path was given
CtorInputs ==
    {a \in [path : PathArgs, dialog : DialogChoices] :
        a.path # None => a.dialog = ""}

\* the commands of the dataset API, in menu order
dataset_api == <<"create", "save">>
CmdNames == {dataset_api[i] : i \in DOMAIN dataset_api}

\* the exception captured from a crashed command
CapturedException == "CapturedException"

\* actions of the View menu: (configuration variable, mode label)
ModeActions ==
    {<<"datalad.gooey.ui-mode", m>> : m \in {"novice", "expert"}} \cup
    {<<"datalad.gooey.ui-theme", m>> : m \in {"system", "light", "dark"}}

\* configuration items of the wrapped library the app reads or writes,
\* with the values they have when the user never configured them
CfgVars == {"datalad.ui.color", "datalad.gooey.ui-mode",
            "datalad.gooey.ui-theme"}
DefaultCfg ==
    [k \in CfgVars |->
        CASE k = "datalad.ui.color"       -> "auto"
          [] k = "datalad.gooey.ui-mode"  -> "novice"
          [] k = "datalad.gooey.ui-theme" -> "system"]

\* ----------------------------------------------------------------- state
VARIABLES
    phase,            \* "new" (not constructed), "up", "deinit"
    environ,          \* os.environ restricted to EnvVars
    environ0,         \* history: the environment before construction
    _restore_env,     \* GooeyApp._restore_env
    backend,          \* dlui.ui.backend
    _prev_ui_backend, \* GooeyApp._prev_ui_backend
    cwd,              \* working directory of the process
    _path,            \* GooeyApp._path (rootpath)
    ctor_args,        \* input: constructor path, answer to the dialog
    dlcfg,            \* datalad configuration items the app reads/writes
    disabled_actions, \* View menu actions disabled by _connect_menu_view
    threads,          \* executor: one record per execute() call
    events,           \* queued cross-thread signal deliveries (UI event queue)
    form,             \* form configurator: command being configured
    statusbar, commandLog, errorLog, cursor,   \* main window widgets
    menuDataset,      \* actions of the dataset menu
    aboutToShow_conn, \* slots connected to menuDataset.aboutToShow
    n_shows,          \* history: aboutToShow emissions
    n_populate,       \* history: add_cmd_actions_to_menu calls
    emitted,          \* history: emissions per signal and command
    menu_triggered,   \* history: dataset menu actions triggered per command
    configure_calls,  \* history: _cmdui.configure calls per command
    calls,            \* history: callbacks handled per thread
    n_inputs          \* history: inputs given by the user

vars == <<phase, environ, environ0, _restore_env, backend, _prev_ui_backend,
          cwd, _path, ctor_args, dlcfg, disabled_actions, threads, events,
          form, statusbar, commandLog, errorLog, cursor, menuDataset,
          aboutToShow_conn, n_shows, n_populate, emitted, menu_triggered,
          configure_calls, calls, n_inputs>>

globals == <<environ, environ0, _restore_env, backend, _prev_ui_backend,
             cwd, _path, ctor_args>>
widgets == <<statusbar, commandLog, errorLog, cursor>>
menu    == <<menuDataset, aboutToShow_conn, n_shows, n_populate>>
routing == <<threads, form, emitted, menu_triggered, configure_calls, calls>>

UserSignals == {"execute_dataladcmd", "configure_dataladcmd",
                "configured_dataladcmd"}

ZeroPerCmd == [c \in CmdNames |-> 0]

\* the user gives one more input
UserInput ==
    /\ phase = "up"
    /\ n_inputs < MaxInputs
    /\ n_inputs' = n_inputs + 1

Init ==
    /\ phase = "new"
    /\ \E p \in PriorSetups : environ = p.environ /\ backend = p.backend
    /\ environ0 = environ
    /\ _restore_env = [v \in EnvVars |-> None]
    /\ _prev_ui_backend = None
    /\ cwd = PrevCwd
    /\ _path = None
    /\ ctor_args \in CtorInputs
    /\ dlcfg = DefaultCfg
    /\ disabled_actions = {}
    /\ threads = <<>>
    /\ events = <<>>
    /\ form = None
    /\ statusbar = [msg |-> "", cmd |-> None, timeout |-> 0]
    /\ commandLog = <<>>
    /\ errorLog = <<>>
    /\ cursor = "ArrowCursor"
    /\ menuDataset = <<>>
    /\ aboutToShow_conn = <<>>
    /\ n_shows = 0
    /\ n_populate = 0
    /\ emitted = [s \in UserSignals |-> ZeroPerCmd]
    /\ menu_triggered = ZeroPerCmd
    /\ configure_calls = ZeroPerCmd
    /\ calls = <<>>
    /\ n_inputs = 0

\* ---------------------------------------------------------- construction

\* __init__: snapshot of the variables about to be modified,
\* None means did not exist
CaptureEnv(env) == [name \in EnvVars |-> env[name]]

\* variant: the assignment of SSH_ASKPASS_REQUIRE is missing
OverrideEnv_without_require(env) ==
    [env EXCEPT !["GIT_TERMINAL_PROMPT"] = "0",
                !["SSH_ASKPASS"]         = "datalad-gooey-askpass"]

\* __init__: the three assignments to os.environ
OverrideEnv(env) ==
    [env EXCEPT !["GIT_TERMINAL_PROMPT"] = "0",
                !["SSH_ASKPASS_REQUIRE"] = "force",
                !["SSH_ASKPASS"]         = "datalad-gooey-askpass"]

\* variant: an aborted dialog leaves the application in the working
\* directory the process already had
ChooseRootPath_cwd(path, dialog) ==
    IF path # None THEN path
    ELSE IF dialog # "" THEN dialog
    ELSE PrevCwd

\* __init__: the path given, else the directory chosen in the dialog,
\* else HOME when the dialog was aborted
ChooseRootPath(path, dialog) ==
    IF path # None THEN path
    ELSE IF dialog # "" THEN dialog
    ELSE HOME

\* _set_root_path: chpwd(path); self._path = path
_set_root_path(path) == [cwd |-> path, _path |-> path]

\* _connect_menu_view: the action named after the configured mode is disabled
_connect_menu_view(cfg) == {a \in ModeActions : a[2] = cfg[a[1]]}

\* __init__: the UI backend the constructor selects
GooeyBackend == "gooey"

\* GooeyApp.__init__(path), with the answer of the directory dialog
Construct ==
    /\ phase = "new"
    /\ phase' = "up"
    /\ dlcfg' = [dlcfg EXCEPT !["datalad.ui.color"] = "off"]
    /\ _restore_env' = CaptureEnv(environ)
    /\ environ' = OverrideEnv(environ)
    /\ LET r == _set_root_path(ChooseRootPath(ctor_args.path,
                                              ctor_args.dialog)) IN
         /\ cwd' = r.cwd
         /\ _path' = r._path
    /\ _prev_ui_backend' = backend
    /\ backend' = GooeyBackend
    /\ aboutToShow_conn' = <<"_populate_dataset_menu">>
    /\ disabled_actions' = _connect_menu_view(dlcfg')
    /\ UNCHANGED <<environ0, ctor_args, widgets, menuDataset, n_shows,
                   n_populate, routing, events, n_inputs>>

\* ------------------------------------------------------------------ deinit

\* deinit: a variable is written back only when a value was captured
RestoreEnv(env, saved) ==
    [var \in EnvVars |-> IF saved[var] # None THEN saved[var] ELSE env[var]]

\* deinit: dlui.ui.set_backend(self._prev_ui_backend)
RestoreBackend(prev) == prev

\* GooeyApp.deinit()
Deinit ==
    /\ phase = "up"
    /\ phase' = "deinit"
    /\ backend' = RestoreBackend(_prev_ui_backend)
    /\ environ' = RestoreEnv(environ, _restore_env)
    /\ UNCHANGED <<environ0, _restore_env, _prev_ui_backend, cwd, _path,
                   ctor_args, dlcfg, disabled_actions, widgets, menu,
                   routing, events, n_inputs>>

\* ---------------------------------------------------------- signal wiring

\* variant: execution_failed is connected to nothing
Connections_failed_unconnected(signal) ==
    CASE signal = "execute_dataladcmd"    -> <<"_cmdexec.execute">>
      [] signal = "configure_dataladcmd"  -> <<"_cmdui.configure">>
      [] signal = "configured_dataladcmd" -> <<"_cmdexec.execute">>
      [] signal = "execution_started"     -> <<"_setup_ongoing_cmdexec">>
      [] signal = "execution_finished"    -> <<"_setup_stopped_cmdexec">>
      [] signal = "execution_failed"      -> <<>>

\* variant: configure_dataladcmd is connected to the executor
Connections_configure_executes(signal) ==
    CASE signal = "execute_dataladcmd"    -> <<"_cmdexec.execute">>
      [] signal = "configure_dataladcmd"  -> <<"_cmdexec.execute">>
      [] signal = "configured_dataladcmd" -> <<"_cmdexec.execute">>
      [] signal = "execution_started"     -> <<"_setup_ongoing_cmdexec">>
      [] signal = "execution_finished"    -> <<"_setup_stopped_cmdexec">>
      [] signal = "execution_failed"      -> <<"_setup_stopped_cmdexec">>

\* __init__: the connect() calls; for each signal the slots it reaches
Connections(signal) ==
    CASE signal = "execute_dataladcmd"    -> <<"_cmdexec.execute">>
      [] signal = "configure_dataladcmd"  -> <<"_cmdui.configure">>
      [] signal = "configured_dataladcmd" -> <<"_cmdexec.execute">>
      [] signal = "execution_started"     -> <<"_setup_ongoing_cmdexec">>
      [] signal = "execution_finished"    -> <<"_setup_stopped_cmdexec">>
      [] signal = "execution_failed"      -> <<"_setup_stopped_cmdexec">>

\* GooeyDataladCmdExec.execute: hand the command to a worker thread
Execute(s, cmdname) ==
    [s EXCEPT !.threads = Append(@, [cmdname |-> cmdname, st |-> "pending"]),
              !.calls = Append(@, [ongoing |-> 0, finished |-> 0, failed |-> 0])]

\* GooeyDataladCmdUI.configure: show the input form of the command
Configure(s, cmdname) ==
    [s EXCEPT !.form = cmdname,
              !.configure_calls[cmdname] = @ + 1]

\* a slot called on the UI thread by a direct connection
CallSlot(slot, s, cmdname) ==
    CASE slot = "_cmdexec.execute" -> Execute(s, cmdname)
      [] slot = "_cmdui.configure" -> Configure(s, cmdname)
      [] OTHER                     -> s

\* emission on the UI thread: every connected slot runs, in connection order
RECURSIVE Deliver(_, _, _)
Deliver(slots, s, cmdname) ==
    IF slots = <<>> THEN s
    ELSE Deliver(Tail(slots), CallSlot(Head(slots), s, cmdname), cmdname)

\* emission on a worker thread: one queued delivery per connected slot
Post(signal, thread_id, ce) ==
    LET slots == Connections(signal) IN
    [i \in 1..Len(slots) |->
        [slot |-> slots[i], thread_id |-> thread_id, ce |-> ce]]

RoutingState ==
    [threads |-> threads, calls |-> calls, form |-> form,
     configure_calls |-> configure_calls]

SetRouting(s) ==
    /\ threads' = s.threads
    /\ calls' = s.calls
    /\ form' = s.form
    /\ configure_calls' = s.configure_calls

\* some component emits GooeyApp.execute_dataladcmd
EmitExecute(cmdname) ==
    /\ UserInput
    /\ emitted' = [emitted EXCEPT !["execute_dataladcmd"][cmdname] = @ + 1]
    /\ SetRouting(Deliver(Connections("execute_dataladcmd"),
                          RoutingState, cmdname))
    /\ UNCHANGED <<phase, globals, dlcfg, disabled_actions, widgets, menu,
                   events, menu_triggered>>

\* some component emits GooeyApp.configure_dataladcmd
EmitConfigure(cmdname) ==
    /\ UserInput
    /\ emitted' = [emitted EXCEPT !["configure_dataladcmd"][cmdname] = @ + 1]
    /\ SetRouting(Deliver(Connections("configure_dataladcmd"),
                          RoutingState, cmdname))
    /\ UNCHANGED <<phase, globals, dlcfg, disabled_actions, widgets, menu,
                   events, menu_triggered>>

\* an action of the dataset menu is triggered: add_cmd_actions_to_menu
\* was given self._cmdui.configure as the receiver
TriggerMenuAction(i) ==
    /\ UserInput
    /\ i \in DOMAIN menuDataset
    /\ menu_triggered' = [menu_triggered EXCEPT ![menuDataset[i]] = @ + 1]
    /\ SetRouting(Configure(RoutingState, menuDataset[i]))
    /\ UNCHANGED <<phase, globals, dlcfg, disabled_actions, widgets, menu,
                   events, emitted>>

\* the user accepts the form: the configurator emits configured_dataladcmd
FormAccepted ==
    /\ UserInput
    /\ form # None
    /\ emitted' = [emitted EXCEPT !["configured_dataladcmd"][form] = @ + 1]
    /\ SetRouting(Deliver(Connections("configured_dataladcmd"),
                          [RoutingState EXCEPT !.form = None], form))
    /\ UNCHANGED <<phase, globals, dlcfg, disabled_actions, widgets, menu,
                   events, menu_triggered>>

\* ------------------------------------------------------- command executor

\* GooeyDataladCmdExec.n_running: commands a worker is executing
n_running == Cardinality({t \in DOMAIN threads : threads[t].st = "running"})

\* a worker thread takes up a command and emits execution_started
ThreadStart(t) ==
    /\ t \in DOMAIN threads
    /\ threads[t].st = "pending"
    /\ threads' = [threads EXCEPT ![t].st = "running"]
    /\ events' = events \o Post("execution_started", t, None)
    /\ UNCHANGED <<phase, globals, dlcfg, disabled_actions, widgets, menu,
                   form, emitted, menu_triggered, configure_calls, calls,
                   n_inputs>>

\* the command returned: the worker emits execution_finished
ThreadFinish(t) ==
    /\ t \in DOMAIN threads
    /\ threads[t].st = "running"
    /\ threads' = [threads EXCEPT ![t].st = "finished"]
    /\ events' = events \o Post("execution_finished", t, None)
    /\ UNCHANGED <<phase, globals, dlcfg, disabled_actions, widgets, menu,
                   form, emitted, menu_triggered, configure_calls, calls,
                   n_inputs>>

\* the command raised: the worker emits execution_failed with the exception
ThreadFail(t) ==
    /\ t \in DOMAIN threads
    /\ threads[t].st = "running"
    /\ threads' = [threads EXCEPT ![t].st = "failed"]
    /\ events' = events \o Post("execution_failed", t, CapturedException)
    /\ UNCHANGED <<phase, globals, dlcfg, disabled_actions, widgets, menu,
                   form, emitted, menu_triggered, configure_calls, calls,
                   n_inputs>>

\* ------------------------------------------------------------ UI callbacks

WidgetState ==
    [statusbar |-> statusbar, commandLog |-> commandLog,
     errorLog |-> errorLog, cursor |-> cursor]

\* _setup_ongoing_cmdexec(thread_id, cmdname, cmdargs, exec_params)
_setup_ongoing_cmdexec(w, cmdname) ==
    [w EXCEPT
        !.statusbar = [msg |-> "Started", cmd |-> cmdname, timeout |-> 0],
        !.commandLog = Append(@, [entry |-> "cmd_call", cmd |-> cmdname]),
        !.cursor = "BusyCursor"]

\* variant: the failure goes to the error log only, the command log gets
\* no note
_setup_stopped_cmdexec_no_note(w, cmdname, ce, nrun) ==
    LET logged ==
            IF ce = None
            THEN [w EXCEPT
                    !.statusbar = [msg |-> "Finished", cmd |-> cmdname,
                                   timeout |-> 1000]]
            ELSE [w EXCEPT
                    !.statusbar = [msg |-> "failed (see error log for details)",
                                   cmd |-> cmdname, timeout |-> 0],
                    !.errorLog = @ \o <<[entry |-> "failed_msg",
                                         cmd |-> cmdname],
                                        [entry |-> "format_standard",
                                         ce |-> ce]>>]
    IN  IF nrun = 0 THEN [logged EXCEPT !.cursor = "ArrowCursor"] ELSE logged

\* variant: the cursor is reset without looking at n_running
_setup_stopped_cmdexec_always_arrow(w, cmdname, ce, nrun) ==
    LET logged ==
            IF ce = None
            THEN [w EXCEPT
                    !.statusbar = [msg |-> "Finished", cmd |-> cmdname,
                                   timeout |-> 1000]]
            ELSE [w EXCEPT
                    !.statusbar = [msg |-> "failed (see error log for details)",
                                   cmd |-> cmdname, timeout |-> 0],
                    !.commandLog = Append(@, [entry |-> "failed_note",
                                              cmd |-> cmdname]),
                    !.errorLog = @ \o <<[entry |-> "failed_msg",
                                         cmd |-> cmdname],
                                        [entry |-> "format_standard",
                                         ce |-> ce]>>]
    IN  [logged EXCEPT !.cursor = "ArrowCursor"]

\* _setup_stopped_cmdexec(thread_id, cmdname, cmdargs, exec_params, ce);
\* nrun is self._cmdexec.n_running as read by the callback
_setup_stopped_cmdexec(w, cmdname, ce, nrun) ==
    LET logged ==
            IF ce = None
            THEN [w EXCEPT
                    !.statusbar = [msg |-> "Finished", cmd |-> cmdname,
                                   timeout |-> 1000]]
            ELSE [w EXCEPT
                    !.statusbar = [msg |-> "failed (see error log for details)",
                                   cmd |-> cmdname, timeout |-> 0],
                    !.commandLog = Append(@, [entry |-> "failed_note",
                                              cmd |-> cmdname]),
                    !.errorLog = @ \o <<[entry |-> "failed_msg",
                                         cmd |-> cmdname],
                                        [entry |-> "format_standard",
                                         ce |-> ce]>>]
    IN  IF nrun = 0 THEN [logged EXCEPT !.cursor = "ArrowCursor"] ELSE logged

\* which counter of the callback history a delivery adds to
CallKind(e) ==
    IF e.slot = "_setup_ongoing_cmdexec" THEN "ongoing"
    ELSE IF e.ce = None THEN "finished" ELSE "failed"

\* the UI thread's event loop delivers the oldest queued signal
HandleEvent ==
    /\ events # <<>>
    /\ LET e == Head(events)
           cmdname == threads[e.thread_id].cmdname
           w == CASE e.slot = "_setup_ongoing_cmdexec" ->
                        _setup_ongoing_cmdexec(WidgetState, cmdname)
                  [] e.slot = "_setup_stopped_cmdexec" ->
                        _setup_stopped_cmdexec(WidgetState, cmdname, e.ce,
                                               n_running)
                  [] OTHER -> WidgetState
       IN /\ statusbar' = w.statusbar
          /\ commandLog' = w.commandLog
          /\ errorLog' = w.errorLog
          /\ cursor' = w.cursor
          /\ calls' = IF e.slot \in {"_setup_ongoing_cmdexec",
                                     "_setup_stopped_cmdexec"}
                      THEN [calls EXCEPT ![e.thread_id][CallKind(e)] = @ + 1]
                      ELSE calls
    /\ events' = Tail(events)
    /\ UNCHANGED <<phase, globals, dlcfg, disabled_actions, menu, threads,
                   form, emitted, menu_triggered, configure_calls, n_inputs>>

\* ------------------------------------------------------------ dataset menu

MenuState ==
    [menuDataset |-> menuDataset, aboutToShow_conn |-> aboutToShow_conn,
     n_populate |-> n_populate]

\* QObject.disconnect of one connection to the slot
Disconnect(conn, slot) ==
    IF \E i \in DOMAIN conn : conn[i] = slot
    THEN LET k == CHOOSE i \in DOMAIN conn :
                    /\ conn[i] = slot
                    /\ \A j \in 1..(i-1) : conn[j] # slot
         IN [i \in 1..(Len(conn) - 1) |->
                IF i < k THEN conn[i] ELSE conn[i + 1]]
    ELSE conn

\* variant: the connection is not severed
_populate_dataset_menu_stays_connected(m) ==
    [m EXCEPT
        !.menuDataset = @ \o dataset_api,
        !.n_populate = @ + 1]

\* _populate_dataset_menu: add the dataset API's actions, then sever the
\* connection
_populate_dataset_menu(m) ==
    [m EXCEPT
        !.menuDataset = @ \o dataset_api,
        !.n_populate = @ + 1,
        !.aboutToShow_conn = Disconnect(@, "_populate_dataset_menu")]

\* every slot connected when aboutToShow is emitted runs
RECURSIVE EmitAboutToShow(_, _)
EmitAboutToShow(slots, m) ==
    IF slots = <<>> THEN m
    ELSE EmitAboutToShow(Tail(slots),
                         IF Head(slots) = "_populate_dataset_menu"
                         THEN _populate_dataset_menu(m) ELSE m)

\* the dataset menu is about to be shown
MenuDatasetAboutToShow ==
    /\ UserInput
    /\ n_shows' = n_shows + 1
    /\ LET m == EmitAboutToShow(aboutToShow_conn, MenuState) IN
         /\ menuDataset' = m.menuDataset
         /\ aboutToShow_conn' = m.aboutToShow_conn
         /\ n_populate' = m.n_populate
    /\ UNCHANGED <<phase, globals, dlcfg, disabled_actions, widgets,
                   routing, events>>

\* ------------------------------------------------- version check and modes

\* _check_new_version: a status bar message, then a message box
_check_new_version ==
    /\ UserInput
    /\ statusbar' = [msg |-> "Checking latest version", cmd |-> None,
                     timeout |-> 2000]
    /\ UNCHANGED <<phase, globals, dlcfg, disabled_actions, commandLog,
                   errorLog, cursor, menu, routing, events>>

\* _set_mode_cfg: triggered by an enabled action of the View menu
_set_mode_cfg(action) ==
    /\ UserInput
    /\ action \in ModeActions \ disabled_actions
    /\ dlcfg' = [dlcfg EXCEPT ![action[1]] = action[2]]
    /\ UNCHANGED <<phase, globals, disabled_actions, widgets, menu, routing,
                   events>>

\* ------------------------------------------------------------ specification

Next ==
    \/ Construct
    \/ Deinit
    \/ \E c \in CmdNames : EmitExecute(c)
    \/ \E c \in CmdNames : EmitConfigure(c)
    \/ \E i \in DOMAIN dataset_api : TriggerMenuAction(i)
    \/ FormAccepted
    \/ \E t \in DOMAIN threads : ThreadStart(t)
    \/ \E t \in DOMAIN threads : ThreadFinish(t)
    \/ \E t \in DOMAIN threads : ThreadFail(t)
    \/ HandleEvent
    \/ MenuDatasetAboutToShow
    \/ _check_new_version
    \/ \E a \in ModeActions : _set_mode_cfg(a)

Spec == Init /\ [][Next]_vars

\* threads the executor can have been handed within the input bound
ThreadIds == 1..MaxInputs

\* a step of a worker thread or of the UI thread's event loop
Progress ==
    \/ HandleEvent
    \/ \E t \in DOMAIN threads :
            ThreadStart(t) \/ ThreadFinish(t) \/ ThreadFail(t)

\* the thread pool runs the commands handed to it, a command returns or
\* raises, and the event loop of the UI thread delivers queued signals:
\* while any such step is possible, one of them is eventually taken
Fairness == WF_vars(Progress)

\* a process started with none of the variables set, the console backend
\* and no path, whose user aborts the directory dialog
InitPlain ==
    /\ Init
    /\ environ = NoEnv
    /\ backend = "console"
    /\ ctor_args = [path |-> None, dialog |-> ""]

FairSpec == InitPlain /\ [][Next]_vars /\ Fairness

\* ------------------------------------------------------------------ claims

\* stop callbacks handled for thread t
Stops(t) == calls[t].finished + calls[t].failed

\* a delivery of the event loop is the step that removes the queue's head
Handled == events # <<>> /\ events' = Tail(events)

CallbackOrder ==
    \A t \in DOMAIN calls :
        /\ Stops(t) <= 1
        /\ Stops(t) > 0 => calls[t].ongoing >= 1

\* C1: for every command handed to the executor, _setup_ongoing_cmdexec runs
\* first and _setup_stopped_cmdexec eventually runs exactly once afterwards,
\* either as finished or as failed, never both and never before the start
\* callback.
C1_StartThenOneStop ==
    /\ []CallbackOrder
    /\ \A t \in ThreadIds :
          (t \in DOMAIN threads) ~>
              (t \in DOMAIN calls /\ calls[t].ongoing >= 1 /\ Stops(t) = 1)

C1_Witness ==
    \E t1, t2 \in DOMAIN calls :
        /\ calls[t1] = [ongoing |-> 1, finished |-> 1, failed |-> 0]
        /\ calls[t2] = [ongoing |-> 1, finished |-> 0, failed |-> 1]

\* C2: a stop with an exception appends exactly one failure note to
\* commandLog and exactly two entries to errorLog (the failure message, then
\* the formatted exception) and sets the persistent 'failed' status message;
\* a stop without an exception changes neither log and shows 'Finished';
\* nothing else ever writes errorLog.
C2_StoppedLogging ==
    [][ /\ (Handled /\ Head(events).slot = "_setup_stopped_cmdexec") =>
            LET e == Head(events)
                c == threads[e.thread_id].cmdname
            IN  IF e.ce # None
                THEN /\ commandLog' =
                            Append(commandLog,
                                   [entry |-> "failed_note", cmd |-> c])
                     /\ errorLog' =
                            errorLog \o
                            <<[entry |-> "failed_msg", cmd |-> c],
                              [entry |-> "format_standard", ce |-> e.ce]>>
                     /\ statusbar' =
                            [msg |-> "failed (see error log for details)",
                             cmd |-> c, timeout |-> 0]
                ELSE /\ commandLog' = commandLog
                     /\ errorLog' = errorLog
                     /\ statusbar' =
                            [msg |-> "Finished", cmd |-> c, timeout |-> 1000]
        /\ errorLog' # errorLog =>
            /\ Handled
            /\ Head(events).slot = "_setup_stopped_cmdexec"
            /\ Head(events).ce # None
      ]_vars

C2_Witness ==
    /\ Len(errorLog) = 2
    /\ \E t \in DOMAIN calls : calls[t].failed = 1
    /\ \E t \in DOMAIN calls : calls[t].finished = 1

\* C3: every start callback sets the busy cursor; a stop callback sets the
\* arrow cursor only if n_running is zero at that moment; and once every
\* queued callback has been handled the cursor is the arrow cursor if no
\* command is running and the busy cursor if one still is.
C3_Cursor ==
    /\ [](events = <<>> =>
            cursor = IF n_running = 0 THEN "ArrowCursor" ELSE "BusyCursor")
    /\ [][ Handled =>
            /\ Head(events).slot = "_setup_ongoing_cmdexec" =>
                    cursor' = "BusyCursor"
            /\ Head(events).slot = "_setup_stopped_cmdexec" =>
                    cursor' = IF n_running = 0 THEN "ArrowCursor" ELSE cursor
         ]_vars

C3_Witness ==
    /\ events = <<>>
    /\ cursor = "BusyCursor"
    /\ n_running >= 1
    /\ \E t \in DOMAIN calls : Stops(t) = 1

\* C4: nothing is added to the dataset menu before its first aboutToShow;
\* the first aboutToShow populates it exactly once and disconnects
\* _populate_dataset_menu, so later aboutToShow events populate no more.
C4_PopulatedOnce ==
    /\ n_shows = 0 => (menuDataset = <<>> /\ n_populate = 0)
    /\ (phase = "up" /\ n_shows = 0) =>
            aboutToShow_conn = <<"_populate_dataset_menu">>
    /\ n_shows >= 1 =>
            /\ n_populate = 1
            /\ menuDataset = dataset_api
            /\ aboutToShow_conn = <<>>

C4_Witness == n_shows >= 2 /\ n_populate = 1

\* execute() calls the executor received for command c
ExecuteCalls(c) ==
    Cardinality({t \in DOMAIN threads : threads[t].cmdname = c})

\* C5: a configure_dataladcmd emission reaches only the configurator's
\* configure; every configured_dataladcmd and every execute_dataladcmd
\* emission reaches the executor's execute exactly once: a command is
\* executed once per configured or execute request and never without one.
C5_Routing ==
    \A c \in CmdNames :
        /\ ExecuteCalls(c) = emitted["execute_dataladcmd"][c]
                             + emitted["configured_dataladcmd"][c]
        /\ configure_calls[c] = emitted["configure_dataladcmd"][c]
                                + menu_triggered[c]

C5_Witness ==
    \E c \in CmdNames :
        /\ emitted["configure_dataladcmd"][c] = 1
        /\ emitted["configured_dataladcmd"][c] = 1
        /\ ExecuteCalls(c) = 1

\* C6: constructing the application and then calling deinit leaves each of
\* the three environment variables as it was before construction: a value is
\* back, and a variable that did not exist is absent again.
C6_EnvRoundTrip == phase = "deinit" => environ = environ0

\* what the GUI needs the environment to be
GooeyEnv ==
    [GIT_TERMINAL_PROMPT |-> "0",
     SSH_ASKPASS_REQUIRE |-> "force",
     SSH_ASKPASS         |-> "datalad-gooey-askpass"]

\* C7: between construction and deinit the environment variables hold the
\* GUI's values and the UI backend is 'gooey', whatever callbacks run; deinit
\* sets the backend back to the one recorded in _prev_ui_backend.
C7_GlobalsFixed ==
    /\ phase = "up" =>
            /\ \A v \in EnvVars : environ[v] = GooeyEnv[v]
            /\ backend = "gooey"
    /\ phase = "deinit" => backend = _prev_ui_backend

C7_Witness ==
    /\ phase = "up"
    /\ n_inputs = MaxInputs
    /\ \E t \in DOMAIN calls : Stops(t) = 1
    /\ environ0 = UserEnv

\* C8: the root path is the path given to the constructor, else the
\* directory chosen in the dialog, else HOME (never the previous working
\* directory); the working directory is changed to it; and it keeps that
\* value through every later operation.
C8_RootPath ==
    phase # "new" =>
        /\ _path = IF ctor_args.path # None THEN ctor_args.path
                   ELSE IF ctor_args.dialog # "" THEN ctor_args.dialog
                   ELSE "/home/user"
        /\ cwd = _path
        /\ _path # PrevCwd

C8_Witness ==
    /\ phase = "deinit"
    /\ ctor_args = [path |-> None, dialog |-> ""]
    /\ _path = HOME
    /\ \E t \in DOMAIN calls : Stops(t) = 1

====
